---- MODULE Spec2Model ----
(***************************************************************************)
(* State-machine model of the Home page component (src/src/app/page.tsx)   *)
(* of the California Fire Tracker: the React state of the page, the fetch  *)
(* and geolocation handlers, and the two proximity effects (nearest fire,  *)
(* nearest evacuation zone with its associated fire).                      *)
(*                                                                         *)
(* React runs the effects of a commit before it handles the next event,    *)
(* so every action below applies the state change of a handler together    *)
(* with the effects that the changed dependencies trigger.                 *)
(*                                                                         *)
(* The evacuations route, the air-quality route, the AirQualityDisplay     *)
(* component and its function getMainAQI are modelled next to the page,    *)
(* each with variables and a specification of its own.                     *)
(***************************************************************************)
EXTENDS Integers, Sequences, FiniteSets, TLC

\* ------------------------------------------------------------------------
\* Bounds of the model
\* ------------------------------------------------------------------------
MaxFires == 2
MaxZones == 2
MaxPending == 1
MaxUpstream == 3
MaxOverlap == 2
MaxMeasurements == 3

\* ------------------------------------------------------------------------
\* Program constants
\* ------------------------------------------------------------------------
\* `Infinity`, the initial running minimum of both scans; larger than every
\* distance of the model.
Infinity == 1000

\* the inline literal of showWarning
WarningThreshold == 1

\* the distance the README promises a warning for
ReadmeWarningMiles == 5

\* ------------------------------------------------------------------------
\* Values
\* ------------------------------------------------------------------------
\* JavaScript null (an absent location, result, point or fire)
Null == [null |-> TRUE]

Abs(x) == IF x < 0 THEN -x ELSE x

\* utils/distance is not part of the sources at hand: the great-circle
\* distance in miles is modelled on an integer grid by a metric that is
\* symmetric, total, and zero exactly for identical points.
calculateDistance(lat1, lon1, lat2, lon2) == Abs(lat1 - lat2) + Abs(lon1 - lon2)

\* observer positions the geolocation provider may report
Positions ==
  { [latitude |-> 0, longitude |-> 0],
    [latitude |-> 0, longitude |-> 1] }

\* fire features a feed response may carry; geometry is [lon, lat], and
\* Latitude/Longitude are stored separately from it
FireCatalogue ==
  { [Name |-> "F1", geometry |-> <<2, 0>>, Latitude |-> 0, Longitude |-> 2, Final |-> FALSE],
    [Name |-> "F2", geometry |-> <<0, 2>>, Latitude |-> 0, Longitude |-> 0, Final |-> FALSE],
    [Name |-> "F3", geometry |-> <<1, 0>>, Latitude |-> 0, Longitude |-> 1, Final |-> TRUE] }

\* a JavaScript string that the code takes apart, as its list of characters
Wildfire == [chars |-> <<"W", "i", "l", "d", "f", "i", "r", "e">>]
MudFlooding == [chars |-> <<"M", "u", "d", "/", "F", "l", "o", "o", "d", "i", "n", "g">>]
flooding == [chars |-> <<"f", "l", "o", "o", "d", "i", "n", "g">>]

\* evacuation features the evacuations route may serve; ring is
\* geometry.coordinates[0], a list of [lon, lat] vertices; last_updated is
\* the JSON value of the property: a number [epoch |-> n] (counted in days
\* here), a string [text |-> s], or null
ZoneCatalogue ==
  { [zone_id |-> "ZA", ring |-> << <<3, 0>>, <<1, 0>>, <<0, 1>> >>,
     last_updated |-> [epoch |-> 20098],
     zone_status |-> "Evacuation Order", zone_status_reason |-> Wildfire],
    [zone_id |-> "ZB", ring |-> << <<-1, 0>> >>,
     last_updated |-> Null,
     zone_status |-> "Evacuation Order", zone_status_reason |-> Wildfire],
    [zone_id |-> "ZE", ring |-> << >>,
     last_updated |-> [text |-> "n/a"],
     zone_status |-> "Evacuation Order", zone_status_reason |-> Wildfire] }

\* features of the upstream feed: the ones above, a zone under a
\* warning, an order given for flooding, and an order without a reason
UpstreamCatalogue ==
  ZoneCatalogue \cup
  { [zone_id |-> "ZW", ring |-> << <<0, 0>> >>,
     last_updated |-> [epoch |-> 20098],
     zone_status |-> "Evacuation Warning", zone_status_reason |-> Wildfire],
    [zone_id |-> "ZF", ring |-> << <<0, 0>> >>,
     last_updated |-> [epoch |-> 20098],
     zone_status |-> "Evacuation Order", zone_status_reason |-> MudFlooding],
    [zone_id |-> "ZN", ring |-> << <<0, 0>> >>,
     last_updated |-> [epoch |-> 20098],
     zone_status |-> "Evacuation Order", zone_status_reason |-> Null] }

\* the lists of at most n distinct elements of S
SeqsUpTo(S, n) ==
  { q \in UNION { [1..k -> S] : k \in 0..n } :
      \A i, j \in 1..Len(q) : q[i] = q[j] => i = j }

FireResponses == SeqsUpTo(FireCatalogue, MaxFires)

\* the feature lists the upstream feed may answer with
UpstreamResponses == SeqsUpTo(UpstreamCatalogue, MaxUpstream)

\* the value of an optional chain that met null
Undefined == [undefined |-> TRUE]

UpperCase ==
  <<"A", "B", "C", "D", "E", "F", "G", "H", "I", "J", "K", "L", "M",
    "N", "O", "P", "Q", "R", "S", "T", "U", "V", "W", "X", "Y", "Z">>
LowerCase ==
  <<"a", "b", "c", "d", "e", "f", "g", "h", "i", "j", "k", "l", "m",
    "n", "o", "p", "q", "r", "s", "t", "u", "v", "w", "x", "y", "z">>

\* String.prototype.toLowerCase
toLowerCase(str) ==
  [chars |->
     [k \in 1..Len(str.chars) |->
        IF \E i \in 1..26 : UpperCase[i] = str.chars[k]
          THEN LowerCase[CHOOSE i \in 1..26 : UpperCase[i] = str.chars[k]]
          ELSE str.chars[k]]]

\* String.prototype.indexOf: the 0-based position of the first occurrence,
\* -1 without one
RECURSIVE indexOfFrom(_, _, _)
indexOfFrom(str, search, i) ==
  IF i + Len(search.chars) > Len(str.chars) THEN -1
  ELSE IF SubSeq(str.chars, i + 1, i + Len(search.chars)) = search.chars
    THEN i
    ELSE indexOfFrom(str, search, i + 1)

indexOf(str, search) == indexOfFrom(str, search, 0)

\* zone_status_reason?.toLowerCase().indexOf('flooding'): undefined for a
\* null reason, a number otherwise
reasonIndexOfFlooding(zone) ==
  IF zone.zone_status_reason = Null
    THEN Undefined
    ELSE [number |-> indexOf(toLowerCase(zone.zone_status_reason), flooding)]

\* the callback of data.features.filter; === compares with the number -1
isActiveEvacuation(zone) ==
  /\ zone.zone_status = "Evacuation Order"
  /\ reasonIndexOfFlooding(zone) = [number |-> -1]

\* data.features.filter(...) of the evacuations route
activeEvacuations(features) == SelectSeq(features, isActiveEvacuation)

\* the feature lists /api/evacuations may answer with
ZoneResponses ==
  { r \in { activeEvacuations(u) : u \in UpstreamResponses } :
      Len(r) <= MaxZones }

VARIABLES
  mounted,          \* the mount effect has run
  geoSupported,     \* navigator.geolocation exists
  geoPending,       \* getCurrentPosition requests not yet answered
  location,         \* useState location
  locationError,    \* useState locationError
  fireData,         \* useState fireData
  evacuationData,   \* useState evacuationData
  loadingFires,     \* useState loadingFires
  loadingEvac,      \* useState loadingEvac
  loadingAqi,       \* useState loadingAqi
  firesInFlight,    \* fetch('/api/fires') calls not yet settled
  evacInFlight,     \* fetch('/api/evacuations') calls not yet settled
  aqiInFlight,      \* fetch('/api/air-quality') calls not yet settled
  computationStats, \* useState computationStats
  closestFire,      \* useState closestFire
  closestEvacZone,  \* useState closestEvacZone
  lastFireFeatures, \* data.features of the latest fire response that was ok
  lastEvacFeatures, \* data.features of the latest zone response that was ok
  error,            \* useState error: '' is << >>, a message is the list of
                    \* its sentences
  latestFailed,     \* per feed: its fetch that settled last has failed
  followErrors,     \* the run keeps track of error and latestFailed
  feedUpstream,     \* evacuations route: the upstream answer it read last
  feedResponse,     \* evacuations route: the response it sent last
  aqdProps,         \* AirQualityDisplay: the props lat, lng
  aqiData,          \* AirQualityDisplay: useState aqiData
  aqdLoading,       \* AirQualityDisplay: useState loading
  aqdError,         \* AirQualityDisplay: useState error
  aqdInFlight,      \* AirQualityDisplay: the props of the fetchAQIData
                    \* calls not yet settled, in the order they started
  airPc,            \* air-quality route: the await GET is suspended at,
                    \* "idle" when no request is being served
  airRequest,       \* air-quality route: the request served last, with the
                    \* environment it was served in
  airLog,           \* air-quality route: the upstream requests it issued
                    \* for that request, in order, with their answers
  airThrown,        \* air-quality route: the exceptions raised meanwhile
  airResponse,      \* air-quality route: the response it sent
  mainData,         \* getMainAQI: the argument of the latest call
  mainAQI           \* getMainAQI: the value it returned

\* the state of the page
pageVars == << mounted, geoSupported, geoPending, location, locationError,
               fireData, evacuationData, loadingFires, loadingEvac,
               loadingAqi, firesInFlight, evacInFlight, aqiInFlight,
               computationStats, closestFire, closestEvacZone,
               lastFireFeatures, lastEvacFeatures, error, latestFailed,
               followErrors >>

\* the requests the evacuations route has served
feedVars == << feedUpstream, feedResponse >>

\* the state of the AirQualityDisplay component
aqdVars == << aqdProps, aqiData, aqdLoading, aqdError, aqdInFlight >>

\* the requests the air-quality route has served
airVars == << airPc, airRequest, airLog, airThrown, airResponse >>

\* the latest call of getMainAQI
mainVars == << mainData, mainAQI >>

\* the state outside the page
offPageVars == << feedVars, aqdVars, airVars, mainVars >>

vars == << pageVars, offPageVars >>
\* variant of reducer: the earlier of two equal candidates is kept
reducerFirstWins(prev, current) ==
  IF prev.distance <= current.distance THEN prev ELSE current

\* the callback of fires.reduce and zones.reduce
reducer(prev, current) ==
  IF prev.distance < current.distance THEN prev ELSE current

\* Array.prototype.reduce without an initial value: the accumulator starts
\* as the first element and the callback is applied from the second on
RECURSIVE reduceFrom(_, _, _)
reduceFrom(arr, acc, i) ==
  IF i > Len(arr) THEN acc
  ELSE reduceFrom(arr, reducer(acc, arr[i]), i + 1)

reduce(arr) == reduceFrom(arr, arr[1], 2)

\* variant of fires: the stored Latitude/Longitude replace the geometry
firesFromProperties(loc, fd) ==
  [i \in 1..Len(fd) |->
     [fire     |-> fd[i],
      distance |-> calculateDistance(loc.latitude, loc.longitude,
                                     fd[i].Latitude, fd[i].Longitude)]]

\* fireData.map(...) of the fire effect: the distance from the observer to
\* geometry.coordinates [lon, lat]
fires(loc, fd) ==
  [i \in 1..Len(fd) |->
     [fire     |-> fd[i],
      distance |-> calculateDistance(loc.latitude, loc.longitude,
                                     fd[i].geometry[2], fd[i].geometry[1])]]

\* variant of fireEffect: a missing location is read as the origin
fireEffectDefaultPosition(loc, fd, prevClosestFire) ==
  IF Len(fd) > 0
    THEN reduce(fires(IF loc # Null THEN loc
                      ELSE [latitude |-> 0, longitude |-> 0], fd))
    ELSE prevClosestFire

\* the fire effect: the value of closestFire after it ran
fireEffect(loc, fd, prevClosestFire) ==
  IF loc # Null /\ Len(fd) > 0
    THEN reduce(fires(loc, fd))
    ELSE prevClosestFire
\* variant of scanStep: the first vertex is kept whatever follows
scanStepFirstOnly(loc, point, st) ==
  LET distance == calculateDistance(loc.latitude, loc.longitude,
                                    point[2], point[1])
  IN IF st.closestPoint = Null
       THEN [minDistance |-> distance, closestPoint |-> point]
       ELSE st

\* variant of scanStep: a vertex that is as close replaces the running
\* minimum as well
scanStepLastWins(loc, point, st) ==
  LET distance == calculateDistance(loc.latitude, loc.longitude,
                                    point[2], point[1])
  IN IF distance <= st.minDistance
       THEN [minDistance |-> distance, closestPoint |-> point]
       ELSE st

\* one step of points.forEach: a strictly closer vertex replaces the
\* running minimum
scanStep(loc, point, st) ==
  LET distance == calculateDistance(loc.latitude, loc.longitude,
                                    point[2], point[1])
  IN IF distance < st.minDistance
       THEN [minDistance |-> distance, closestPoint |-> point]
       ELSE st

RECURSIVE scanPoints(_, _, _, _)
scanPoints(loc, points, i, st) ==
  IF i > Len(points) THEN st
  ELSE scanPoints(loc, points, i + 1, scanStep(loc, points[i], st))
\* evacuationData.map(...) of the evacuation effect
zones(loc, ed) ==
  [i \in 1..Len(ed) |->
     LET st == scanPoints(loc, ed[i].ring, 1,
                          [minDistance |-> Infinity, closestPoint |-> Null])
     IN [zone         |-> ed[i],
         distance     |-> st.minDistance,
         closestPoint |-> st.closestPoint]]

\* totalPoints += points.length over the zones of the collection
RECURSIVE totalPointsFrom(_, _)
totalPointsFrom(ed, i) ==
  IF i > Len(ed) THEN 0
  ELSE Len(ed[i].ring) + totalPointsFrom(ed, i + 1)
\* variant of eligible: finalized fires are not filtered out
eligibleAny(fire) == TRUE

\* the finalized-fire filter of the associated-fire scan
eligible(fire) == ~fire.Final

\* one step of fireData.forEach in the associated-fire scan: distance from
\* the closest point [lon, lat] to the stored Latitude/Longitude
fireStep(lat, lon, fire, st) ==
  IF eligible(fire)
    THEN LET distanceToFire ==
               calculateDistance(lat, lon, fire.Latitude, fire.Longitude)
         IN IF distanceToFire < st.minDistanceToFire
              THEN [minDistanceToFire |-> distanceToFire,
                    closestFireToZone |-> fire]
              ELSE st
    ELSE st

RECURSIVE scanFires(_, _, _, _, _)
scanFires(lat, lon, fd, i, st) ==
  IF i > Len(fd) THEN st
  ELSE scanFires(lat, lon, fd, i + 1, fireStep(lat, lon, fd[i], st))
\* variant of associatedFire: the observer position is the reference point
associatedFireFromObserver(closestZone, fd) ==
  IF Len(fd) > 0 /\ closestZone.closestPoint # Null
    THEN scanFires(location.latitude, location.longitude, fd, 1,
                   [minDistanceToFire |-> Infinity,
                    closestFireToZone |-> Null]).closestFireToZone
    ELSE Null

\* the branch that chooses the associated fire of the selected zone
associatedFire(closestZone, fd) ==
  IF Len(fd) > 0 /\ closestZone.closestPoint # Null
    THEN scanFires(closestZone.closestPoint[2], closestZone.closestPoint[1],
                   fd, 1,
                   [minDistanceToFire |-> Infinity,
                    closestFireToZone |-> Null]).closestFireToZone
    ELSE Null

\* variant of evacEffect: an empty zone collection resets the stats
evacEffectResetOnEmpty(loc, ed, fd, prevZone, prevStats) ==
  IF loc # Null /\ Len(ed) > 0
    THEN LET closestZone == reduce(zones(loc, ed))
         IN [closestEvacZone |->
               [zone           |-> closestZone.zone,
                distance       |-> closestZone.distance,
                associatedFire |-> associatedFire(closestZone, fd)],
             computationStats |->
               [totalPoints |-> totalPointsFrom(ed, 1)]]
    ELSE [closestEvacZone |-> prevZone,
          computationStats |-> IF Len(ed) = 0 THEN Null ELSE prevStats]

\* variant of evacEffect: no zone is evaluated without fires
evacEffectNeedsFires(loc, ed, fd, prevZone, prevStats) ==
  IF loc # Null /\ Len(ed) > 0 /\ Len(fd) > 0
    THEN LET closestZone == reduce(zones(loc, ed))
         IN [closestEvacZone |->
               [zone           |-> closestZone.zone,
                distance       |-> closestZone.distance,
                associatedFire |-> associatedFire(closestZone, fd)],
             computationStats |->
               [totalPoints |-> totalPointsFrom(ed, 1)]]
    ELSE [closestEvacZone |-> prevZone, computationStats |-> prevStats]

\* variant of evacEffect: the stats are stored only when fires are at hand
evacEffectStatsWithFires(loc, ed, fd, prevZone, prevStats) ==
  IF loc # Null /\ Len(ed) > 0
    THEN LET closestZone == reduce(zones(loc, ed))
         IN [closestEvacZone |->
               [zone           |-> closestZone.zone,
                distance       |-> closestZone.distance,
                associatedFire |-> associatedFire(closestZone, fd)],
             computationStats |->
               IF Len(fd) > 0
                 THEN [totalPoints |-> totalPointsFrom(ed, 1)]
                 ELSE prevStats]
    ELSE [closestEvacZone |-> prevZone, computationStats |-> prevStats]

\* variant of evacEffect: the vertex count is added to the count held before
evacEffectAccumulating(loc, ed, fd, prevZone, prevStats) ==
  IF loc # Null /\ Len(ed) > 0
    THEN LET closestZone == reduce(zones(loc, ed))
         IN [closestEvacZone |->
               [zone           |-> closestZone.zone,
                distance       |-> closestZone.distance,
                associatedFire |-> associatedFire(closestZone, fd)],
             computationStats |->
               [totalPoints |->
                  (IF prevStats = Null THEN 0 ELSE prevStats.totalPoints)
                    + totalPointsFrom(ed, 1)]]
    ELSE [closestEvacZone |-> prevZone, computationStats |-> prevStats]

\* the evacuation effect: the values of closestEvacZone and
\* computationStats after it ran.  computationTime, a difference of two
\* wall-clock readings that nothing else reads, is not part of the state.
evacEffect(loc, ed, fd, prevZone, prevStats) ==
  IF loc # Null /\ Len(ed) > 0
    THEN LET closestZone == reduce(zones(loc, ed))
         IN [closestEvacZone |->
               [zone           |-> closestZone.zone,
                distance       |-> closestZone.distance,
                associatedFire |-> associatedFire(closestZone, fd)],
             computationStats |->
               [totalPoints |-> totalPointsFrom(ed, 1)]]
    ELSE [closestEvacZone |-> prevZone, computationStats |-> prevStats]

\* ------------------------------------------------------------------------
\* Rendering
\* ------------------------------------------------------------------------
\* the loading state kept by the loading effect
loading == loadingFires \/ loadingEvac \/ loadingAqi
\* variant of showWarning: the bound is inclusive
showWarningInclusive ==
  closestEvacZone # Null /\ closestEvacZone.distance <= WarningThreshold

showWarning ==
  closestEvacZone # Null /\ closestEvacZone.distance < WarningThreshold

\* the section below the air-quality display is rendered: the page is
\* past its loading return and neither hazard feed is loading
resultsRendered == ~loading /\ ~(loadingFires \/ loadingEvac)

\* the condition of the 'EVACUATION ORDER NEARBY!' panel
nearbyTier == showWarning /\ closestEvacZone # Null

\* the condition of the 'Monitoring Nearby Evacuation Orders' panel
monitoringTier == closestEvacZone # Null /\ ~showWarning

nearbyPanelShown == resultsRendered /\ nearbyTier

monitoringPanelShown == resultsRendered /\ monitoringTier

\* the time value of a Date: [time |-> n], or NaN for an Invalid Date
NaN == [nan |-> TRUE]

\* Date.parse on the strings of the model: a date-time string in the ISO
\* format has a time value, any other string has none
IsoTime == [s \in {"2025-01-10T00:00:00Z"} |-> 20098]

DateParse(s) == IF s \in DOMAIN IsoTime THEN [time |-> IsoTime[s]] ELSE NaN

\* new Date(value): a number is the time value itself, a string is parsed,
\* null is converted to the number 0
NewDate(value) ==
  IF value = Null THEN [time |-> 0]
  ELSE IF "epoch" \in DOMAIN value THEN [time |-> value.epoch]
  ELSE DateParse(value.text)

\* Date.prototype.toLocaleDateString: the text 'Invalid Date' for an
\* Invalid Date, otherwise the formatted date of the time value
toLocaleDateString(time) ==
  IF time = NaN THEN [text |-> "Invalid Date"] ELSE [date |-> time.time]

\* the text after 'Zone Name:' in both zone panels: the zone id followed by
\* a fire name in parentheses
zoneNameText(zoneResult) ==
  [zone_id |-> zoneResult.zone.zone_id, fire |-> "Eaton Fire"]

\* the text after 'Updated:' in both zone panels
updatedText(zone) == toLocaleDateString(NewDate(zone.last_updated))

\* ------------------------------------------------------------------------
\* Initial state: the useState initial values, before the mount effect
\* ------------------------------------------------------------------------
InitPage ==
  /\ mounted = FALSE
  /\ geoSupported \in BOOLEAN
  /\ geoPending = 0
  /\ location = Null
  /\ locationError = ""
  /\ fireData = << >>
  /\ evacuationData = << >>
  /\ loadingFires = TRUE
  /\ loadingEvac = TRUE
  /\ loadingAqi = TRUE
  /\ firesInFlight = 0
  /\ evacInFlight = 0
  /\ aqiInFlight = 0
  /\ computationStats = Null
  /\ closestFire = Null
  /\ closestEvacZone = Null
  /\ lastFireFeatures = << >>
  /\ lastEvacFeatures = << >>
  /\ error = << >>
  /\ latestFailed = [fires |-> FALSE, evacuations |-> FALSE, airQuality |-> FALSE]

InitOffPage ==
  /\ feedUpstream = Null
  /\ feedResponse = Null
  /\ aqdProps = Null
  /\ aqiData = << >>
  /\ aqdLoading = TRUE
  /\ aqdError = Null
  /\ aqdInFlight = << >>
  /\ airPc = "idle"
  /\ airRequest = Null
  /\ airLog = << >>
  /\ airThrown = << >>
  /\ airResponse = Null
  /\ mainData = Null
  /\ mainAQI = Null

\* the runs of Spec follow the hazard data and leave the error message at
\* its initial value; the runs of SpecErr follow the error message
Init == InitPage /\ InitOffPage /\ followErrors = FALSE

InitErr == InitPage /\ InitOffPage /\ followErrors = TRUE

\* setError called with a value
setError(value) == error' = IF followErrors THEN value ELSE error

\* the outcome of a fetch that has settled
settled(feed, failed) ==
  latestFailed' = IF followErrors THEN [latestFailed EXCEPT ![feed] = failed]
                                  ELSE latestFailed

\* the message of the catch of fetchFireData
fireDataFailed(prev) == << "Failed to fetch fire data. Please try again." >>

\* variant of evacuationDataFailed: the message is left as it was
evacuationDataFailedSilent(prev) == prev

\* the updater of the catch of fetchEvacuationData
evacuationDataFailed(prev) ==
  IF prev # << >> THEN Append(prev, "Also failed to fetch evacuation data")
                  ELSE << "Failed to fetch evacuation data" >>

\* the updater of the catch of fetchAirQualityData
airQualityDataFailed(prev) ==
  IF prev # << >> THEN Append(prev, "Also failed to fetch air quality data")
                  ELSE << "Failed to fetch air quality data" >>

\* ------------------------------------------------------------------------
\* Handlers
\* ------------------------------------------------------------------------
\* getLocation: the synchronous part
getLocation ==
  IF ~geoSupported
    THEN /\ locationError' = "Geolocation is not supported by your browser"
         /\ geoPending' = geoPending
    ELSE /\ geoPending' = geoPending + 1
         /\ locationError' = locationError

\* the mount effect: getLocation(); fetchFireData(); fetchEvacuationData()
Mount ==
  /\ ~mounted
  /\ mounted' = TRUE
  /\ getLocation
  /\ loadingFires' = TRUE
  /\ firesInFlight' = firesInFlight + 1
  /\ loadingEvac' = TRUE
  /\ evacInFlight' = evacInFlight + 1
  /\ UNCHANGED << geoSupported, location, fireData, evacuationData,
                  loadingAqi, aqiInFlight, computationStats, closestFire,
                  closestEvacZone >>
  /\ UNCHANGED << lastFireFeatures, lastEvacFeatures >>
  /\ UNCHANGED << error, latestFailed >>
  /\ UNCHANGED << followErrors, offPageVars >>

\* the success callback of getCurrentPosition, followed by the effects that
\* depend on location: fire effect, evacuation effect, air-quality effect
GeoSuccess(position) ==
  /\ geoPending > 0
  /\ aqiInFlight < MaxPending
  /\ geoPending' = geoPending - 1
  /\ location' = position
  /\ locationError' = ""
  /\ closestFire' = fireEffect(position, fireData, closestFire)
  /\ LET r == evacEffect(position, evacuationData, fireData,
                         closestEvacZone, computationStats)
     IN /\ closestEvacZone' = r.closestEvacZone
        /\ computationStats' = r.computationStats
  /\ loadingAqi' = TRUE
  /\ aqiInFlight' = aqiInFlight + 1
  /\ UNCHANGED << mounted, geoSupported, fireData, evacuationData,
                  loadingFires, loadingEvac, firesInFlight, evacInFlight >>
  /\ UNCHANGED << lastFireFeatures, lastEvacFeatures >>
  /\ UNCHANGED << error, latestFailed >>
  /\ UNCHANGED << followErrors, offPageVars >>

\* the error callback of getCurrentPosition
GeoError ==
  /\ geoPending > 0
  /\ geoPending' = geoPending - 1
  /\ locationError' = "Unable to retrieve your location"
  /\ UNCHANGED << mounted, geoSupported, location, fireData, evacuationData,
                  loadingFires, loadingEvac, loadingAqi, firesInFlight,
                  evacInFlight, aqiInFlight, computationStats, closestFire,
                  closestEvacZone >>
  /\ UNCHANGED << lastFireFeatures, lastEvacFeatures >>
  /\ UNCHANGED << error, latestFailed >>
  /\ UNCHANGED << followErrors, offPageVars >>

\* variant of setFireData: the features are appended to the held list
setFireDataMerging(prev, features) == prev \o features

\* setFireData and setEvacuationData called with a value: the state
\* becomes that value, whatever it was before
setFireData(prev, features) == features

setEvacuationData(prev, features) == features

\* fetchFireData after the await, response ok: setFireData(data.features),
\* finally setLoadingFires(false); then the fire and evacuation effects
FetchFireOk(features) ==
  /\ firesInFlight > 0
  /\ firesInFlight' = firesInFlight - 1
  /\ fireData' = setFireData(fireData, features)
  /\ loadingFires' = FALSE
  /\ closestFire' = fireEffect(location, features, closestFire)
  /\ LET r == evacEffect(location, evacuationData, features,
                         closestEvacZone, computationStats)
     IN /\ closestEvacZone' = r.closestEvacZone
        /\ computationStats' = r.computationStats
  /\ UNCHANGED << mounted, geoSupported, geoPending, location, locationError,
                  evacuationData, loadingEvac, loadingAqi, evacInFlight,
                  aqiInFlight >>
  /\ lastFireFeatures' = features
  /\ UNCHANGED lastEvacFeatures
  /\ setError(<< >>)
  /\ settled("fires", FALSE)
  /\ UNCHANGED << followErrors, offPageVars >>

\* fetchFireData after the await, network error or response not ok
FetchFireFail ==
  /\ firesInFlight > 0
  /\ firesInFlight' = firesInFlight - 1
  /\ loadingFires' = FALSE
  /\ UNCHANGED << mounted, geoSupported, geoPending, location, locationError,
                  fireData, evacuationData, loadingEvac, loadingAqi,
                  evacInFlight, aqiInFlight, computationStats, closestFire,
                  closestEvacZone >>
  /\ UNCHANGED << lastFireFeatures, lastEvacFeatures >>
  /\ setError(fireDataFailed(error))
  /\ settled("fires", TRUE)
  /\ UNCHANGED << followErrors, offPageVars >>

\* fetchEvacuationData after the await, response ok; then the evacuation
\* effect
FetchEvacOk(features) ==
  /\ evacInFlight > 0
  /\ evacInFlight' = evacInFlight - 1
  /\ evacuationData' = setEvacuationData(evacuationData, features)
  /\ loadingEvac' = FALSE
  /\ LET r == evacEffect(location, features, fireData,
                         closestEvacZone, computationStats)
     IN /\ closestEvacZone' = r.closestEvacZone
        /\ computationStats' = r.computationStats
  /\ UNCHANGED << mounted, geoSupported, geoPending, location, locationError,
                  fireData, loadingFires, loadingAqi, firesInFlight,
                  aqiInFlight, closestFire >>
  /\ lastEvacFeatures' = features
  /\ UNCHANGED lastFireFeatures
  /\ UNCHANGED error
  /\ settled("evacuations", FALSE)
  /\ UNCHANGED << followErrors, offPageVars >>

\* fetchEvacuationData after the await, network error or response not ok
FetchEvacFail ==
  /\ evacInFlight > 0
  /\ evacInFlight' = evacInFlight - 1
  /\ loadingEvac' = FALSE
  /\ UNCHANGED << mounted, geoSupported, geoPending, location, locationError,
                  fireData, evacuationData, loadingFires, loadingAqi,
                  firesInFlight, aqiInFlight, computationStats, closestFire,
                  closestEvacZone >>
  /\ UNCHANGED << lastFireFeatures, lastEvacFeatures >>
  /\ setError(evacuationDataFailed(error))
  /\ settled("evacuations", TRUE)
  /\ UNCHANGED << followErrors, offPageVars >>

\* fetchAirQualityData after the await, response ok: setAirQualityData,
\* finally setLoadingAqi(false)
FetchAqiDone ==
  /\ aqiInFlight > 0
  /\ aqiInFlight' = aqiInFlight - 1
  /\ loadingAqi' = FALSE
  /\ UNCHANGED << mounted, geoSupported, geoPending, location, locationError,
                  fireData, evacuationData, loadingFires, loadingEvac,
                  firesInFlight, evacInFlight, computationStats, closestFire,
                  closestEvacZone >>
  /\ UNCHANGED << lastFireFeatures, lastEvacFeatures >>
  /\ UNCHANGED error
  /\ settled("airQuality", FALSE)
  /\ UNCHANGED << followErrors, offPageVars >>

\* fetchAirQualityData after the await, network error or response not ok:
\* the message is set, the error is thrown again into a promise nobody
\* awaits, finally setLoadingAqi(false)
FetchAqiFail ==
  /\ aqiInFlight > 0
  /\ aqiInFlight' = aqiInFlight - 1
  /\ loadingAqi' = FALSE
  /\ UNCHANGED << mounted, geoSupported, geoPending, location, locationError,
                  fireData, evacuationData, loadingFires, loadingEvac,
                  firesInFlight, evacInFlight, computationStats, closestFire,
                  closestEvacZone >>
  /\ UNCHANGED << lastFireFeatures, lastEvacFeatures >>
  /\ setError(airQualityDataFailed(error))
  /\ settled("airQuality", TRUE)
  /\ UNCHANGED << followErrors, offPageVars >>

\* the refresh button, present only on the page rendered when not loading
handleRefresh ==
  /\ mounted
  /\ ~loading
  /\ geoPending < MaxPending
  /\ getLocation
  /\ loadingFires' = TRUE
  /\ firesInFlight' = firesInFlight + 1
  /\ loadingEvac' = TRUE
  /\ evacInFlight' = evacInFlight + 1
  /\ IF location # Null
       THEN /\ loadingAqi' = TRUE
            /\ aqiInFlight' = aqiInFlight + 1
       ELSE UNCHANGED << loadingAqi, aqiInFlight >>
  /\ UNCHANGED << mounted, geoSupported, location, fireData, evacuationData,
                  computationStats, closestFire, closestEvacZone >>
  /\ UNCHANGED << lastFireFeatures, lastEvacFeatures >>
  /\ UNCHANGED << error, latestFailed >>
  /\ UNCHANGED << followErrors, offPageVars >>

Next ==
  \/ Mount
  \/ \E position \in Positions : GeoSuccess(position)
  \/ GeoError
  \/ \E features \in FireResponses : FetchFireOk(features)
  \/ FetchFireFail
  \/ \E features \in ZoneResponses : FetchEvacOk(features)
  \/ FetchEvacFail
  \/ FetchAqiDone
  \/ FetchAqiFail
  \/ handleRefresh

Spec == Init /\ [][Next]_vars

\* the page with the error message followed: one position, and responses
\* that are empty or hold one feature
ErrPositions == { [latitude |-> 0, longitude |-> 0] }

ErrFireResponses ==
  { << >> } \cup { << f >> : f \in { g \in FireCatalogue : g.Name = "F1" } }

ErrZoneResponses ==
  { << >> } \cup { << z >> : z \in { g \in ZoneCatalogue : g.zone_id = "ZA" } }

NextErr ==
  \/ Mount
  \/ \E position \in ErrPositions : GeoSuccess(position)
  \/ GeoError
  \/ \E features \in ErrFireResponses : FetchFireOk(features)
  \/ FetchFireFail
  \/ \E features \in ErrZoneResponses : FetchEvacOk(features)
  \/ FetchEvacFail
  \/ FetchAqiDone
  \/ FetchAqiFail
  \/ handleRefresh

SpecErr == InitErr /\ [][NextErr]_vars

\* a fetch that was started settles: the browser resolves or rejects its
\* promise, and the continuation after the await runs
FairErr ==
  /\ WF_vars(FetchFireFail
               \/ \E features \in ErrFireResponses : FetchFireOk(features))
  /\ WF_vars(FetchEvacFail
               \/ \E features \in ErrZoneResponses : FetchEvacOk(features))
  /\ WF_vars(FetchAqiFail \/ FetchAqiDone)

SpecErrFair == SpecErr /\ FairErr

\* ------------------------------------------------------------------------
\* The evacuations route, on its own
\* ------------------------------------------------------------------------
\* the answers of the upstream feed: not ok, or ok with a feature list
UpstreamAnswers ==
  { [ok |-> FALSE] } \cup
  { [ok |-> TRUE, features |-> u] : u \in UpstreamResponses }

\* GET of the evacuations route: a response that is not ok is thrown and
\* answered with status 500, otherwise the filtered features are answered
GET(answer) ==
  /\ feedUpstream' = answer
  /\ feedResponse' =
       IF ~answer.ok
         THEN [status |-> 500, error |-> "Failed to fetch evacuation data"]
         ELSE [status |-> 200, features |-> activeEvacuations(answer.features)]
  /\ UNCHANGED << pageVars, aqdVars, airVars, mainVars >>

NextFeed == \E answer \in UpstreamAnswers : GET(answer)

SpecFeed == Init /\ [][NextFeed]_vars

\* ------------------------------------------------------------------------
\* The AirQualityDisplay component, on its own
\* ------------------------------------------------------------------------
\* the props the parent may pass, in thousandths of a degree
AqdCoordinates ==
  { [lat |-> 34052, lng |-> -118244],
    [lat |-> 37774, lng |-> -122419],
    [lat |-> 0, lng |-> -118244] }

\* Number(x).toFixed(2), as a number of thousandths
toFixed2(x) ==
  IF x >= 0 THEN ((x + 5) \div 10) * 10 ELSE -(((-x + 5) \div 10) * 10)

roundedCoordinates(c) == [lat |-> toFixed2(c.lat), lng |-> toFixed2(c.lng)]

\* measurements the api may report for the coordinates of a request
validMeasurement(c) ==
  [ParameterName |-> "PM2.5", AQI |-> [number |-> 42],
   Category |-> [Name |-> "Good"], Latitude |-> c.lat, Longitude |-> c.lng]

invalidMeasurement(c) ==
  [ParameterName |-> "O3", AQI |-> NaN,
   Category |-> [Name |-> "Good"], Latitude |-> c.lat, Longitude |-> c.lng]

\* the answers of /api/air-quality to a request for coordinates c: status
\* and parsed body, the body being an error object, null, or an array
AqiAnswers(c) ==
  { [ok |-> FALSE, json |-> [error |-> "API configuration error"]],
    [ok |-> TRUE, json |-> Null],
    [ok |-> TRUE, json |-> [array |-> << >>]],
    [ok |-> TRUE, json |-> [array |-> << invalidMeasurement(c) >>]],
    [ok |-> TRUE, json |-> [array |-> << validMeasurement(c) >>]] }

\* the answers to the requests the component may send
AllAqiAnswers ==
  UNION { AqiAnswers(c) \cup AqiAnswers(roundedCoordinates(c)) :
            c \in AqdCoordinates }

isArray(json) == "array" \in DOMAIN json

\* !data || (Array.isArray(data) && data.length === 0)
noData(json) == json = Null \/ (isArray(json) /\ Len(json.array) = 0)

\* the filter of fetchAQIData: a number that is not NaN, and a category name
validItem(item) == "number" \in DOMAIN item.AQI /\ item.Category # Null

filterValid(items) == SelectSeq(items, validItem)

\* fetchAQIData from the first await to the end of try: the value passed to
\* setAqiData, or the message of the error that was thrown
fetchAQIDataOutcome(fingerprintOk, rounded, exact) ==
  IF ~fingerprintOk
    THEN [thrown |-> "FingerprintJS failed to load"]
    ELSE LET secondTry == ~rounded.ok \/ noData(rounded.json)
             response == IF secondTry THEN exact ELSE rounded
             data == response.json
         IN IF ~response.ok
              THEN [thrown |-> data.error]
            ELSE IF ~isArray(data) \/ Len(data.array) = 0
              THEN [thrown |-> "No air quality data available for this location"]
            ELSE IF Len(filterValid(data.array)) = 0
              THEN [thrown |-> "No valid air quality measurements available"]
            ELSE [validData |-> filterValid(data.array)]

\* the list without its i-th element
removeAt(q, i) == SubSeq(q, 1, i - 1) \o SubSeq(q, i + 1, Len(q))

\* a render with new props, and the effect on [lat, lng]: fetchAQIData
\* up to its first await, unless lat or lng is 0
aqdRender(props) ==
  /\ props # aqdProps
  /\ Len(aqdInFlight) < MaxOverlap
  /\ aqdProps' = props
  /\ IF props.lat # 0 /\ props.lng # 0
       THEN /\ aqdLoading' = TRUE
            /\ aqdError' = Null
            /\ aqdInFlight' = Append(aqdInFlight, props)
       ELSE UNCHANGED << aqdLoading, aqdError, aqdInFlight >>
  /\ UNCHANGED aqiData
  /\ UNCHANGED << pageVars, feedVars, airVars, mainVars >>

\* fetchAQIData after its last await: setAqiData(validData), or the catch
\* with setError and setAqiData([]); finally setLoading(false)
fetchAQIDataSettles(i, fingerprintOk, rounded, exact) ==
  /\ i <= Len(aqdInFlight)
  /\ rounded \in AqiAnswers(roundedCoordinates(aqdInFlight[i]))
  /\ exact \in AqiAnswers(aqdInFlight[i])
  /\ LET outcome == fetchAQIDataOutcome(fingerprintOk, rounded, exact)
     IN IF "validData" \in DOMAIN outcome
          THEN /\ aqiData' = outcome.validData
               /\ UNCHANGED aqdError
          ELSE /\ aqdError' = [message |-> outcome.thrown]
               /\ aqiData' = << >>
  /\ aqdLoading' = FALSE
  /\ aqdInFlight' = removeAt(aqdInFlight, i)
  /\ UNCHANGED aqdProps
  /\ UNCHANGED << pageVars, feedVars, airVars, mainVars >>

NextAqd ==
  \/ \E props \in AqdCoordinates : aqdRender(props)
  \/ \E i \in 1..MaxOverlap, fingerprintOk \in BOOLEAN,
        rounded \in AllAqiAnswers, exact \in AllAqiAnswers :
       fetchAQIDataSettles(i, fingerprintOk, rounded, exact)

SpecAqd == Init /\ [][NextAqd]_vars

\* ------------------------------------------------------------------------
\* The air-quality route, on its own
\* ------------------------------------------------------------------------
\* searchParams.get: null for an absent parameter, else its text; a text
\* that is a number is held as that number, in thousandths of a degree
AirLatitudes == { Null, [text |-> ""], [number |-> 34052] }

AirLongitudes == { Null, [text |-> ""], [number |-> -118244] }

\* process.env.AIR_QUALITY_API_KEY and process.env.AQICN_API_KEY
AirKeys == { Undefined, [text |-> "key"] }

AirRequests ==
  [lat : AirLatitudes, lng : AirLongitudes,
   airNowApiKey : AirKeys, aqicnApiKey : AirKeys]

\* variant of missing: only an absent parameter counts
missingOnlyAbsent(param) == param = Null

\* !latitude, !longitude: absent or empty
missing(param) == param = Null \/ param = [text |-> ""]

\* Number(text): the empty text is 0
Number(param) == IF "number" \in DOMAIN param THEN param.number ELSE 0

\* an observation of the AirNow api
airNowObservation ==
  [ParameterName |-> "O3", AQI |-> [number |-> 42],
   Category |-> [Number |-> 1, Name |-> "Good"], StateCode |-> "CA"]

\* the bodies an upstream response may carry: no JSON at all, JSON null,
\* an array, or an object
AirNowBodies ==
  { [unparsable |-> TRUE], Null, [array |-> << >>],
    [array |-> << airNowObservation >>], [object |-> "WebServiceError"] }

\* the answers of the AirNow api: the fetch rejects, or a response
AirNowAnswers ==
  { [rejects |-> TRUE] } \cup [ok : BOOLEAN, body : AirNowBodies]

\* data.data of an AQICN body
AqicnStations ==
  { Null,
    [text |-> "Unknown station"],
    [aqi |-> [text |-> "-"], time |-> [iso |-> "2025-01-10T08:00:00-08:00"],
     dominentpol |-> Undefined],
    [aqi |-> [number |-> 42], time |-> [iso |-> "2025-01-10T08:00:00-08:00"],
     dominentpol |-> [chars |-> <<"p", "m", "2", "5">>]],
    [aqi |-> [number |-> 160], time |-> [iso |-> "2025-01-10T08:00:00-08:00"],
     dominentpol |-> Undefined],
    [aqi |-> [number |-> 160], time |-> Undefined, dominentpol |-> Undefined] }

AqicnBodies ==
  { [unparsable |-> TRUE] } \cup
  { [status |-> "error", data |-> [text |-> "Invalid key"]] } \cup
  { [status |-> "ok", data |-> d] : d \in AqicnStations }

AqicnAnswers ==
  { [rejects |-> TRUE] } \cup [ok : BOOLEAN, body : AqicnBodies]

rejects(answer) == "rejects" \in DOMAIN answer

unparsable(body) == "unparsable" \in DOMAIN body

\* String.prototype.toUpperCase
toUpperCase(str) ==
  [chars |->
     [k \in 1..Len(str.chars) |->
        IF \E i \in 1..26 : LowerCase[i] = str.chars[k]
          THEN UpperCase[CHOOSE i \in 1..26 : LowerCase[i] = str.chars[k]]
          ELSE str.chars[k]]]

\* the AirNow category of an AQICN value
aqicnCategory(aqi) ==
  IF aqi > 300 THEN [Number |-> 6, Name |-> "Hazardous"]
  ELSE IF aqi > 200 THEN [Number |-> 5, Name |-> "Very Unhealthy"]
  ELSE IF aqi > 150 THEN [Number |-> 4, Name |-> "Unhealthy"]
  ELSE IF aqi > 100
    THEN [Number |-> 3, Name |-> "Unhealthy for Sensitive Groups"]
  ELSE IF aqi > 50 THEN [Number |-> 2, Name |-> "Moderate"]
  ELSE [Number |-> 1, Name |-> "Good"]

\* the validation of fetchAQICNData: the body is refused (a value that is
\* not a number, NaN included, has no number field)
aqicnInvalid(body) ==
  \/ body.status = "error"
  \/ body.data = Null
  \/ body.data = [text |-> "Unknown station"]
  \/ "number" \notin DOMAIN body.data.aqi

\* fetchAQICNData after its fetch: the error thrown if any, and the value
\* returned otherwise (null, or a list of one observation in the AirNow
\* format)
fetchAQICNData(latitude, longitude, answer) ==
  IF rejects(answer)
    THEN [returned |-> Null, thrown |-> [message |-> "fetch failed"]]
  ELSE IF ~answer.ok
    THEN [returned |-> Null, thrown |-> [message |-> "AQICN API error"]]
  ELSE IF unparsable(answer.body)
    THEN [returned |-> Null, thrown |-> [message |-> "Unexpected token"]]
  ELSE IF aqicnInvalid(answer.body)
    THEN [returned |-> Null, thrown |-> Null]
  ELSE IF answer.body.data.time = Undefined
    THEN [returned |-> Null,
          thrown |-> [message |-> "Cannot read properties of undefined"]]
  ELSE [thrown |-> Null,
        returned |->
          [array |->
             << [ParameterName |->
                   IF answer.body.data.dominentpol = Undefined
                     THEN [chars |-> <<"P", "M", "2", ".", "5">>]
                     ELSE toUpperCase(answer.body.data.dominentpol),
                 AQI |-> answer.body.data.aqi,
                 Category |-> aqicnCategory(answer.body.data.aqi.number),
                 StateCode |-> "INT",
                 Latitude |-> latitude, Longitude |-> longitude] >>]]

\* variant of noAirNowData: the data at hand never counts
noAirNowDataAlways(body) == TRUE

\* !airNowData || airNowData.length === 0
noAirNowData(body) ==
  body = Null \/ ("array" \in DOMAIN body /\ Len(body.array) = 0)

\* an upstream request that has been issued and not answered yet
airIssue(url, latitude, longitude) ==
  [url |-> url, latitude |-> latitude, longitude |-> longitude,
   answer |-> Undefined]

\* the log with the answer to its last request filled in
airAnswered(log, answer) == [log EXCEPT ![Len(log)].answer = answer]

\* a response is sent; its body is held as the value that is serialised
airRespond(status, json) ==
  /\ airResponse' = [status |-> status, json |-> json]
  /\ airPc' = "idle"

\* the catch of GET
airCatch(message) ==
  /\ airThrown' = << [in |-> "GET", message |-> message] >>
  /\ airRespond(500, [error |-> message])

\* GET from the AQICN fallback on: the fallback is tried when there is no
\* AirNow data; fetchAQICNData throws before its fetch without a key, and
\* what it throws is caught and logged
airFallback(log, airNowData) ==
  IF noAirNowData(airNowData)
    THEN IF airRequest.aqicnApiKey = Undefined
           THEN /\ airLog' = log
                /\ airThrown' =
                     << [in |-> "fetchAQICNData",
                         message |-> "AQICN_API_KEY is not configured"] >>
                /\ airRespond(200, airNowData)
           ELSE /\ airLog' = Append(log, airIssue("aqicn",
                                                  Number(airRequest.lat),
                                                  Number(airRequest.lng)))
                /\ airPc' = "aqicn"
                /\ UNCHANGED << airThrown, airResponse >>
    ELSE /\ airLog' = log
         /\ UNCHANGED airThrown
         /\ airRespond(200, airNowData)

\* GET up to its first await: the parameter and key checks, then the
\* request with the rounded coordinates
airQualityGET(req) ==
  /\ airPc = "idle"
  /\ airRequest' = req
  /\ airThrown' = << >>
  /\ IF missing(req.lat) \/ missing(req.lng)
       THEN /\ airLog' = << >>
            /\ airRespond(400, [error |->
                 "Latitude and longitude are required parameters"])
     ELSE IF req.airNowApiKey = Undefined
       THEN /\ airLog' = << >>
            /\ airRespond(500, [error |-> "API configuration error"])
     ELSE /\ airLog' = << airIssue("roundedUrl", toFixed2(Number(req.lat)),
                                   toFixed2(Number(req.lng))) >>
          /\ airPc' = "rounded"
          /\ airResponse' = Null
  /\ UNCHANGED << pageVars, feedVars, aqdVars, mainVars >>

\* GET after the fetch of roundedUrl: the body is parsed, then the request
\* with the exact coordinates is issued if the response is not ok or has
\* no data
airRoundedAnswered(answer) ==
  /\ airPc = "rounded"
  /\ LET log == airAnswered(airLog, answer)
     IN IF rejects(answer)
          THEN airLog' = log /\ airCatch("fetch failed")
        ELSE IF unparsable(answer.body)
          THEN airLog' = log /\ airCatch("Unexpected token")
        ELSE IF ~answer.ok \/ noAirNowData(answer.body)
          THEN /\ airLog' = Append(log, airIssue("exactUrl",
                                                 Number(airRequest.lat),
                                                 Number(airRequest.lng)))
               /\ airPc' = "exact"
               /\ UNCHANGED << airThrown, airResponse >>
        ELSE airFallback(log, answer.body)
  /\ UNCHANGED airRequest
  /\ UNCHANGED << pageVars, feedVars, aqdVars, mainVars >>

\* GET after the fetch of exactUrl: a response that is not ok is thrown
airExactAnswered(answer) ==
  /\ airPc = "exact"
  /\ LET log == airAnswered(airLog, answer)
     IN IF rejects(answer)
          THEN airLog' = log /\ airCatch("fetch failed")
        ELSE IF ~answer.ok
          THEN airLog' = log /\ airCatch("Failed to fetch air quality data")
        ELSE IF unparsable(answer.body)
          THEN airLog' = log /\ airCatch("Unexpected token")
        ELSE airFallback(log, answer.body)
  /\ UNCHANGED airRequest
  /\ UNCHANGED << pageVars, feedVars, aqdVars, mainVars >>

\* the AirNow data GET holds while the fallback is consulted: the body of
\* the AirNow response read last
airNowData(log) == log[Len(log) - 1].answer.body

\* GET after the fetch of fetchAQICNData: its data replaces the AirNow
\* data if it returned any; what it throws is caught and logged
airAqicnAnswered(answer) ==
  /\ airPc = "aqicn"
  /\ LET f == fetchAQICNData(airRequest.lat, airRequest.lng, answer)
     IN /\ airThrown' =
             IF f.thrown # Null
               THEN << [in |-> "fetchAQICNData",
                        message |-> f.thrown.message] >>
               ELSE << >>
        /\ airRespond(200, IF f.thrown = Null /\ f.returned # Null
                             THEN f.returned ELSE airNowData(airLog))
  /\ airLog' = airAnswered(airLog, answer)
  /\ UNCHANGED airRequest
  /\ UNCHANGED << pageVars, feedVars, aqdVars, mainVars >>

NextAir ==
  \/ \E req \in AirRequests : airQualityGET(req)
  \/ \E answer \in AirNowAnswers : airRoundedAnswered(answer)
  \/ \E answer \in AirNowAnswers : airExactAnswered(answer)
  \/ \E answer \in AqicnAnswers : airAqicnAnswered(answer)

SpecAir == Init /\ [][NextAir]_vars

\* ------------------------------------------------------------------------
\* getMainAQI of AirQualityDisplay, on its own
\* ------------------------------------------------------------------------
\* measurements a list may hold
MeasurementCatalogue ==
  { [ParameterName |-> "PM25", AQI |-> [number |-> 30],
     Category |-> [Name |-> "Good"], StateCode |-> "INT"],
    [ParameterName |-> "PM2.5", AQI |-> [number |-> 42],
     Category |-> [Name |-> "Good"], StateCode |-> "CA"],
    [ParameterName |-> "O3", AQI |-> [number |-> 80],
     Category |-> [Name |-> "Moderate"], StateCode |-> "CA"],
    [ParameterName |-> "PM10", AQI |-> [number |-> 80],
     Category |-> [Name |-> "Moderate"], StateCode |-> "INT"],
    [ParameterName |-> "NO2", AQI |-> [number |-> 160],
     Category |-> [Name |-> "Unhealthy"], StateCode |-> "CA"] }

\* the arguments of getMainAQI: undefined, or a list
MainArguments ==
  { Undefined } \cup
  { [list |-> q] :
      q \in UNION { [1..k -> MeasurementCatalogue] : k \in 0..MaxMeasurements } }

\* the callback of data.find
isPM25(item) == item.ParameterName = "PM25" \/ item.ParameterName = "PM2.5"

\* Array.prototype.find: the first element that satisfies the callback,
\* undefined without one
RECURSIVE findPM25From(_, _)
findPM25From(list, i) ==
  IF i > Len(list) THEN Undefined
  ELSE IF isPM25(list[i]) THEN list[i]
  ELSE findPM25From(list, i + 1)

\* variant of highestStep: an item with an equal AQI replaces the maximum
highestStepLastWins(max, item) ==
  IF max = Null \/ item.AQI.number >= max.AQI.number THEN item ELSE max

\* the callback of data.reduce
highestStep(max, item) ==
  IF max = Null \/ item.AQI.number > max.AQI.number THEN item ELSE max

RECURSIVE highestFrom(_, _, _)
highestFrom(list, i, max) ==
  IF i > Len(list) THEN max
  ELSE highestFrom(list, i + 1, highestStep(max, list[i]))

\* the value built from the measurement that was chosen
mainOf(item) ==
  [aqi |-> item.AQI.number, category |-> item.Category.Name,
   isInternational |-> (item.StateCode = "INT")]

getMainAQI(data) ==
  IF data = Undefined \/ Len(data.list) = 0
    THEN [aqi |-> 0, category |-> "Good", isInternational |-> FALSE]
  ELSE LET pm25Data == findPM25From(data.list, 1)
       IN IF pm25Data # Undefined
            THEN mainOf(pm25Data)
            ELSE LET highestAQI == highestFrom(data.list, 1, Null)
                 IN IF highestAQI # Null
                      THEN mainOf(highestAQI)
                      ELSE [aqi |-> 0, category |-> "Good",
                            isInternational |-> FALSE]

\* a call of getMainAQI
callGetMainAQI(data) ==
  /\ mainData' = data
  /\ mainAQI' = getMainAQI(data)
  /\ UNCHANGED << pageVars, feedVars, aqdVars, airVars >>

NextMain == \E data \in MainArguments : callGetMainAQI(data)

SpecMain == Init /\ [][NextMain]_vars

TypeOK ==
  /\ mounted \in BOOLEAN
  /\ geoPending \in 0..MaxPending
  /\ location \in Positions \cup {Null}
  /\ fireData \in FireResponses
  /\ evacuationData \in ZoneResponses

\* ========================================================================
\* Properties
\* ========================================================================
\* distance from an observer position to a point [lon, lat]
DistTo(loc, point) ==
  calculateDistance(loc.latitude, loc.longitude, point[2], point[1])

\* the distances from the observer to the vertices of a ring
VertexDistances(loc, ring) == { DistTo(loc, ring[k]) : k \in 1..Len(ring) }

\* the zone evaluation has run on the current position and collections
ZoneEvaluated == location # Null /\ Len(evacuationData) > 0

\* the fire evaluation has run on the current position and collection
FireEvaluated == location # Null /\ Len(fireData) > 0

\* the zone selected by the evaluation of the current inputs, with the
\* closest point it carries forward
SelectedZone == reduce(zones(location, evacuationData))

\* C1 (as claimed): for every evaluated zone, no vertex is closer than the
\* recorded distance and some vertex of the zone achieves it.
C1_EveryZoneHasAchievingVertex ==
  location # Null =>
    \A i \in 1..Len(evacuationData) :
      LET e == zones(location, evacuationData)[i]
          D == VertexDistances(location, evacuationData[i].ring)
      IN /\ \A d \in D : e.distance <= d
         /\ e.distance \in D

\* C1 (amended): for every evaluated zone with at least one vertex the
\* recorded distance is the minimum of the observer-to-vertex distances (no
\* vertex is closer, some vertex achieves it); a zone without vertices is
\* recorded with distance Infinity and no closest point.  The distance held
\* for the selected zone is the one recorded for it.
C1_ZoneDistanceIsVertexMinimum ==
  location # Null =>
    /\ \A i \in 1..Len(evacuationData) :
         LET e == zones(location, evacuationData)[i]
             D == VertexDistances(location, evacuationData[i].ring)
         IN /\ e.zone = evacuationData[i]
            /\ \A d \in D : e.distance <= d
            /\ D # {} => e.distance \in D
            /\ D = {} => e.distance = Infinity /\ e.closestPoint = Null
    /\ Len(evacuationData) > 0 =>
         LET D == VertexDistances(location, closestEvacZone.zone.ring)
         IN /\ \A d \in D : closestEvacZone.distance <= d
            /\ D # {} => closestEvacZone.distance \in D
            /\ D = {} => closestEvacZone.distance = Infinity

\* a zone whose vertices lie at different distances has been evaluated and
\* selected, next to a zone without vertices
C1_Witness ==
  /\ ZoneEvaluated
  /\ closestEvacZone # Null
  /\ Cardinality(VertexDistances(location, closestEvacZone.zone.ring)) >= 2
  /\ DistTo(location, closestEvacZone.zone.ring[1]) > closestEvacZone.distance
  /\ \E i \in 1..Len(evacuationData) : Len(evacuationData[i].ring) = 0

\* C2 (as claimed): with the position available and a non-empty zone
\* collection, the held zone is a zone of the collection at least as close
\* as every zone of the collection, and the closest point carried forward
\* is a vertex of that zone achieving the held distance.
C2_NearestZoneWithClosestPoint ==
  ZoneEvaluated =>
    /\ closestEvacZone # Null
    /\ \E i \in 1..Len(evacuationData) :
         evacuationData[i] = closestEvacZone.zone
    /\ \A j \in 1..Len(evacuationData) :
         \A d \in VertexDistances(location, evacuationData[j].ring) :
           closestEvacZone.distance <= d
    /\ SelectedZone.zone = closestEvacZone.zone
    /\ \E k \in 1..Len(closestEvacZone.zone.ring) :
         /\ closestEvacZone.zone.ring[k] = SelectedZone.closestPoint
         /\ DistTo(location, closestEvacZone.zone.ring[k])
              = closestEvacZone.distance

\* C3: with the position available and a non-empty fire collection, the
\* held nearest fire is a fire of the collection, its distance is the
\* distance from the observer to its geometry coordinates, and no fire of
\* the collection, finalized or not, is closer.
C3_NearestFireOverAllFires ==
  FireEvaluated =>
    /\ closestFire # Null
    /\ \E i \in 1..Len(fireData) : fireData[i] = closestFire.fire
    /\ closestFire.distance = DistTo(location, closestFire.fire.geometry)
    /\ \A j \in 1..Len(fireData) :
         closestFire.distance <= DistTo(location, fireData[j].geometry)

\* a finalized fire is held as the nearest fire although a non-finalized
\* fire is in the collection, and its stored coordinates would have ranked
\* the fires differently
C3_Witness ==
  /\ FireEvaluated
  /\ closestFire # Null
  /\ closestFire.fire.Final
  /\ \E j \in 1..Len(fireData) :
       /\ ~fireData[j].Final
       /\ DistTo(location, fireData[j].geometry) > closestFire.distance
       /\ calculateDistance(location.latitude, location.longitude,
                            fireData[j].Latitude, fireData[j].Longitude)
            < closestFire.distance

\* the positions of a list of candidates that achieve its minimum distance
MinIndices(arr) ==
  { i \in 1..Len(arr) : \A j \in 1..Len(arr) : arr[i].distance <= arr[j].distance }

First(S) == CHOOSE i \in S : \A j \in S : i <= j
Last(S) == CHOOSE i \in S : \A j \in S : i >= j

\* C4 (as claimed): among candidates at exactly the minimum distance the
\* first of the input collection is the one held, for fires and for zones.
C4_FirstEncounteredWins ==
  /\ FireEvaluated =>
       closestFire.fire
         = fireData[First(MinIndices(fires(location, fireData)))]
  /\ ZoneEvaluated =>
       closestEvacZone.zone
         = evacuationData[First(MinIndices(zones(location, evacuationData)))]

\* C4 (amended): among candidates at exactly the minimum distance the last
\* of the input collection is the one held, for fires and for zones, for
\* every ordering of the input.
C4_LastEncounteredWins ==
  /\ FireEvaluated =>
       closestFire.fire
         = fireData[Last(MinIndices(fires(location, fireData)))]
  /\ ZoneEvaluated =>
       closestEvacZone.zone
         = evacuationData[Last(MinIndices(zones(location, evacuationData)))]

\* two fires and two zones tie for the minimum distance
C4_Witness ==
  /\ FireEvaluated
  /\ ZoneEvaluated
  /\ Cardinality(MinIndices(fires(location, fireData))) >= 2
  /\ Cardinality(MinIndices(zones(location, evacuationData))) >= 2
  /\ closestEvacZone.distance < Infinity

\* C5: the fire associated with the nearest zone is never a finalized fire.
C5_AssociatedFireNeverFinal ==
  (closestEvacZone # Null /\ closestEvacZone.associatedFire # Null)
    => ~closestEvacZone.associatedFire.Final

\* a fire is associated although a finalized fire of the collection lies
\* strictly closer to the closest point
C5_Witness ==
  /\ ZoneEvaluated
  /\ closestEvacZone # Null
  /\ closestEvacZone.associatedFire # Null
  /\ SelectedZone.closestPoint # Null
  /\ \E j \in 1..Len(fireData) :
       /\ fireData[j].Final
       /\ calculateDistance(SelectedZone.closestPoint[2],
                            SelectedZone.closestPoint[1],
                            fireData[j].Latitude, fireData[j].Longitude)
            < calculateDistance(SelectedZone.closestPoint[2],
                                SelectedZone.closestPoint[1],
                                closestEvacZone.associatedFire.Latitude,
                                closestEvacZone.associatedFire.Longitude)

\* the non-finalized fires of the held collection
EligibleFires == { fireData[j] : j \in { k \in 1..Len(fireData) : ~fireData[k].Final } }

\* distance from a point [lon, lat] to the stored coordinates of a fire
PointToFire(point, fire) ==
  calculateDistance(point[2], point[1], fire.Latitude, fire.Longitude)

\* C6: when fires is non-empty, the selected zone has a closest point and a
\* non-finalized fire exists, the associated fire is a non-finalized fire
\* whose stored Latitude/Longitude is at minimum distance from the closest
\* point; otherwise the associated fire is none; the zone result is
\* produced in both cases.
C6_AssociatedFireNearestToClosestPoint ==
  ZoneEvaluated =>
    /\ closestEvacZone # Null
    /\ closestEvacZone.zone = SelectedZone.zone
    /\ IF Len(fireData) > 0 /\ SelectedZone.closestPoint # Null
            /\ EligibleFires # {}
         THEN /\ closestEvacZone.associatedFire \in EligibleFires
              /\ \A f \in EligibleFires :
                   PointToFire(SelectedZone.closestPoint,
                               closestEvacZone.associatedFire)
                     <= PointToFire(SelectedZone.closestPoint, f)
         ELSE closestEvacZone.associatedFire = Null

\* the associated fire is not the eligible fire nearest to the observer
C6_Witness ==
  /\ ZoneEvaluated
  /\ closestEvacZone # Null
  /\ closestEvacZone.associatedFire # Null
  /\ \E f \in EligibleFires :
       calculateDistance(location.latitude, location.longitude,
                         f.Latitude, f.Longitude)
         < calculateDistance(location.latitude, location.longitude,
                             closestEvacZone.associatedFire.Latitude,
                             closestEvacZone.associatedFire.Longitude)

\* the zone result is produced with no associated fire: no fire at all, or
\* only finalized fires
C6_WitnessNone ==
  /\ ZoneEvaluated
  /\ closestEvacZone # Null
  /\ closestEvacZone.associatedFire = Null
  /\ Len(fireData) > 0

\* C7 (as claimed): an empty fire collection means no nearest-fire result
\* is held, and an empty zone collection means no nearest-zone result is
\* held.
C7_EmptyCollectionHoldsNone ==
  /\ Len(fireData) = 0 => closestFire = Null
  /\ Len(evacuationData) = 0 => closestEvacZone = Null

\* C8 (as claimed): a zone with zero boundary vertices is never the zone
\* held as the nearest-zone result.
C8_EmptyZoneNeverHeld ==
  closestEvacZone # Null => Len(closestEvacZone.zone.ring) > 0

\* C9: whenever a nearest-zone result is held, exactly one tier applies to
\* it: NEARBY for a distance strictly below the threshold, MONITORING for a
\* distance above it and for the boundary value itself; and whenever the
\* result section is rendered exactly one of the two panels is shown.
C9_AlertTierTotal ==
  closestEvacZone # Null =>
    /\ nearbyTier # monitoringTier
    /\ closestEvacZone.distance < WarningThreshold => nearbyTier
    /\ closestEvacZone.distance > WarningThreshold => monitoringTier
    /\ closestEvacZone.distance = WarningThreshold => monitoringTier
    /\ resultsRendered => (nearbyPanelShown # monitoringPanelShown)
    /\ nearbyPanelShown => nearbyTier
    /\ monitoringPanelShown => monitoringTier

\* the NEARBY panel is shown
C9_WitnessNearby ==
  /\ closestEvacZone # Null
  /\ closestEvacZone.distance < WarningThreshold
  /\ nearbyPanelShown

\* the MONITORING panel is shown for the boundary value
C9_Witness ==
  /\ closestEvacZone # Null
  /\ closestEvacZone.distance = WarningThreshold
  /\ monitoringPanelShown

\* C10 (as claimed): the NEARBY warning applies whenever the nearest
\* evacuation zone is within 5 miles.
C10_WarningWithinFiveMiles ==
  (closestEvacZone # Null /\ closestEvacZone.distance <= ReadmeWarningMiles)
    => nearbyTier

\* the first-ring vertices of a collection, each named by the position of
\* its zone and its position in the ring
RingVertices(ed) ==
  UNION { { <<i, k>> : k \in 1..Len(ed[i].ring) } : i \in 1..Len(ed) }

\* C11: after every zone evaluation totalPoints is the number of first-ring
\* vertices of the collection just evaluated, a zone without vertices
\* contributing none; it reflects the latest evaluation only and is never
\* accumulated over evaluations.
C11_TotalPointsOfLatestEvaluation ==
  ZoneEvaluated =>
    /\ computationStats # Null
    /\ computationStats.totalPoints = Cardinality(RingVertices(evacuationData))

\* the zones have been evaluated again after a refresh (the nearest fire of
\* the collection held before it is still held), on a collection that holds
\* a zone without vertices next to a zone with vertices
C11_Witness ==
  /\ ZoneEvaluated
  /\ computationStats # Null
  /\ Len(fireData) = 0
  /\ closestFire # Null
  /\ Len(evacuationData) >= 2
  /\ computationStats.totalPoints > 0
  /\ \E i \in 1..Len(evacuationData) : Len(evacuationData[i].ring) = 0

\* every request issued so far has completed
AllSettled ==
  mounted /\ firesInFlight = 0 /\ evacInFlight = 0 /\ geoPending = 0

\* C12 (as claimed): once all in-flight requests have completed, the
\* collections held are those of the latest responses and the results
\* held are those derived from them and from the latest position, never
\* those of an earlier request: the nearest fire is the one of the held
\* fire collection (none when it is empty) and the nearest zone and its
\* stats are those of the held zone collection (none when it is empty).
C12_OnlyLatestResultSurfaced ==
  (AllSettled /\ location # Null) =>
    /\ fireData = lastFireFeatures
    /\ evacuationData = lastEvacFeatures
    /\ closestFire =
         (IF Len(fireData) > 0
            THEN reduce(fires(location, fireData)) ELSE Null)
    /\ closestEvacZone =
         (IF Len(evacuationData) > 0
            THEN [zone           |-> SelectedZone.zone,
                  distance       |-> SelectedZone.distance,
                  associatedFire |-> associatedFire(SelectedZone, fireData)]
            ELSE Null)
    /\ computationStats =
         (IF Len(evacuationData) > 0
            THEN [totalPoints |-> Cardinality(RingVertices(evacuationData))]
            ELSE Null)

\* C13 (as claimed): while the cycle of a hazard category is being re-run,
\* that is while a fetch of its collection is in flight, the category is
\* back in NOT_YET_EVALUATED: no nearest-fire result is held during a fire
\* fetch, and no nearest-zone result and no stats during a zone fetch.
C13_NoResultHeldDuringRerun ==
  /\ firesInFlight > 0 => closestFire = Null
  /\ evacInFlight > 0 => (closestEvacZone = Null /\ computationStats = Null)

\* the zone result that one evaluation run on a position and two
\* collections produces
ZoneRunResult(loc, ed, fd) ==
  LET selected == reduce(zones(loc, ed))
  IN [zone           |-> selected.zone,
      distance       |-> selected.distance,
      associatedFire |-> associatedFire(selected, fd)]

\* the stats that one evaluation run on a zone collection produces
ZoneRunStats(ed) == [totalPoints |-> Cardinality(RingVertices(ed))]

\* C14: the stats are held if and only if a nearest-zone result is held,
\* and every step that changes the held zone result or the held stats is an
\* evaluation run that stores both of them, computed from the same position
\* and collections; so the held stats, zone, distance and associated fire
\* always come from one evaluation run.
C14_NoPartialZoneEvaluation ==
  /\ (computationStats = Null) <=> (closestEvacZone = Null)
  /\ [][/\ (computationStats' = Null) <=> (closestEvacZone' = Null)
        /\ (closestEvacZone' # closestEvacZone
              \/ computationStats' # computationStats)
             => /\ location' # Null
                /\ Len(evacuationData') > 0
                /\ closestEvacZone'
                     = ZoneRunResult(location', evacuationData', fireData')
                /\ computationStats' = ZoneRunStats(evacuationData')]_vars

\* a zone result and stats are held that a run on an earlier collection
\* produced together: the zone collection is empty by now
C14_Witness ==
  /\ closestEvacZone # Null
  /\ computationStats # Null
  /\ Len(evacuationData) = 0
  /\ location # Null
  /\ computationStats.totalPoints = Len(closestEvacZone.zone.ring)

C15_WitnessFireOnly ==
  /\ FireEvaluated
  /\ AllSettled
  /\ Len(evacuationData) = 0
  /\ closestEvacZone = Null
  /\ closestFire # Null

\* C16: while no observer position has been obtained (geolocation
\* unsupported, denied or pending) evaluation is skipped: no nearest-fire
\* result, no nearest-zone result and no stats are held in a state where
\* location is null.
C16_NoEvaluationWithoutLocation ==
  location = Null =>
    /\ closestFire = Null
    /\ closestEvacZone = Null
    /\ computationStats = Null

\* both collections have arrived non-empty and the position request has
\* ended without a position (unsupported or denied)
C16_Witness ==
  /\ location = Null
  /\ AllSettled
  /\ locationError # ""
  /\ Len(fireData) > 0
  /\ Len(evacuationData) > 0

\* both collections have arrived non-empty while the position request is
\* still pending
C16_WitnessPending ==
  /\ location = Null
  /\ geoPending > 0
  /\ firesInFlight = 0
  /\ evacInFlight = 0
  /\ Len(fireData) > 0
  /\ Len(evacuationData) > 0

\* a zone panel is on screen
ZonePanelShown == nearbyPanelShown \/ monitoringPanelShown

\* C17 (as claimed): whenever a zone panel is shown, a missing timestamp
\* renders as "Not available", an unparseable timestamp renders as "Invalid
\* timestamp", and a parseable numeric-epoch or ISO-string value renders as
\* a date.
C17_TimestampRendering ==
  ZonePanelShown =>
    LET value == closestEvacZone.zone.last_updated
        text  == updatedText(closestEvacZone.zone)
    IN IF value = Null
         THEN text = [text |-> "Not available"]
         ELSE IF "epoch" \in DOMAIN value
           THEN text = [date |-> value.epoch]
           ELSE IF value.text \in DOMAIN IsoTime
             THEN text = [date |-> IsoTime[value.text]]
             ELSE text = [text |-> "Invalid timestamp"]

\* a status reason mentions flooding in some letter case
MentionsFlooding(reason) ==
  \E i \in 0..(Len(reason.chars) - Len(flooding.chars)) :
    \A k \in 1..Len(flooding.chars) :
      \E j \in 1..26 :
        /\ LowerCase[j] = flooding.chars[k]
        /\ reason.chars[i + k] \in {LowerCase[j], UpperCase[j]}

\* the zones the feed is to keep: under an evacuation order, with no
\* status reason or with one that does not mention flooding
ActiveOrder(zone) ==
  /\ zone.zone_status = "Evacuation Order"
  /\ \/ zone.zone_status_reason = Null
     \/ ~MentionsFlooding(zone.zone_status_reason)

\* C18 (as claimed): the features the evacuations route answers with are
\* exactly, and in the upstream order, the zones under an "Evacuation
\* Order" whose status reason is absent or does not mention flooding in any
\* letter case; zones of another status and zones whose reason mentions
\* flooding are dropped.
C18_FeedKeepsExactlyActiveOrders ==
  (feedResponse # Null /\ feedUpstream.ok) =>
    feedResponse.features = SelectSeq(feedUpstream.features, ActiveOrder)

\* C19 (as claimed): whenever a zone panel is shown, the fire name
\* presented with the zone is the name of the associated fire held in the
\* zone result when there is one, and no fire name is presented when the
\* associated fire is none.
C19_NoPlaceholderFire ==
  ZonePanelShown =>
    IF closestEvacZone.associatedFire # Null
      THEN zoneNameText(closestEvacZone).fire
             = closestEvacZone.associatedFire.Name
      ELSE zoneNameText(closestEvacZone).fire = ""

\* C20: a successful refresh wholly replaces a hazard collection: once
\* fetchFireData (resp. fetchEvacuationData) has succeeded, the held fire
\* (resp. zone) collection is exactly the list of features of the latest
\* response that was ok, in the response's order, with no entry of the
\* previous collection merged in.
C20_RefreshReplacesCollection ==
  /\ fireData = lastFireFeatures
  /\ evacuationData = lastEvacFeatures

\* a refresh has replaced both collections: the fire associated by an
\* earlier evaluation is no longer in the non-empty fire collection, and the
\* zone collection is empty while a zone of the previous one is still held
C20_Witness ==
  /\ AllSettled
  /\ closestEvacZone # Null
  /\ closestEvacZone.associatedFire # Null
  /\ Len(evacuationData) = 0
  /\ Len(fireData) > 0
  /\ \A i \in 1..Len(fireData) : fireData[i] # closestEvacZone.associatedFire

\* C21: an evaluation is deterministic and shares no state with earlier
\* evaluations: whenever the fires (resp. the zones) are evaluated, the
\* result held after whatever evaluations ran before is the result that
\* the same evaluation produces on a page that holds no result yet, from
\* the same position and the same collections; nearest fire, nearest zone,
\* distance, associated fire and totalPoints are all determined by them.
C21_EvaluationDeterministic ==
  /\ FireEvaluated => closestFire = fireEffect(location, fireData, Null)
  /\ ZoneEvaluated =>
       LET fresh == evacEffect(location, evacuationData, fireData, Null, Null)
       IN /\ closestEvacZone = fresh.closestEvacZone
          /\ computationStats = fresh.computationStats

\* the zones have been evaluated on a page that already held results of
\* earlier evaluations: the nearest fire of a collection that is gone is
\* still held next to a zone result with a finite distance
C21_Witness ==
  /\ ZoneEvaluated
  /\ AllSettled
  /\ closestEvacZone # Null
  /\ closestEvacZone.distance < Infinity
  /\ closestFire # Null
  /\ Len(fireData) = 0

\* C22: an evaluation attempted with an empty zone collection leaves the
\* held computation stats as they were, neither reset nor overwritten:
\* every step that ends with an empty zone collection keeps the stats.
C22_EmptyZonesKeepStats ==
  [][Len(evacuationData') = 0 => computationStats' = computationStats]_vars

\* a zone response without features has arrived with the position known,
\* and the stats of the evaluation before it are still held
C22_Witness ==
  /\ AllSettled
  /\ location # Null
  /\ Len(evacuationData) = 0
  /\ Len(lastEvacFeatures) = 0
  /\ computationStats # Null
  /\ computationStats.totalPoints > 0

\* nothing is pending: no fetch is in flight and no position request is
\* unanswered
Quiescent == AllSettled /\ aqiInFlight = 0

\* C23 (as claimed): once the fire fetch and the evacuation fetch have both
\* completed the page leaves the full-page loading state, also when no
\* observer position is obtained; so in a state where nothing is pending
\* any more the page is not loading.
C23_LeavesLoadingWithoutPosition ==
  Quiescent => ~loading

\* ------------------------------------------------------------------------
\* C24. Once nothing is pending, the error message is non-empty exactly
\* when, for at least one of the three feeds, the fetch that settled last
\* has failed; in particular a fire fetch that succeeds does not erase the
\* record of an evacuation fetch that failed.
\* ------------------------------------------------------------------------
AnyLatestFailed ==
  latestFailed.fires \/ latestFailed.evacuations \/ latestFailed.airQuality

C24_ErrorIffLatestFailed ==
  (followErrors /\ Quiescent) => ((error # << >>) <=> AnyLatestFailed)

\* ------------------------------------------------------------------------
\* C25. A fetch of the fire feed or of the evacuation feed that fails
\* leaves the collection held before unchanged, leaves an error message,
\* and clears the loading flag of its feed; and every fetch that has been
\* started clears the loading flag of its feed at some later time, whether
\* it succeeds or fails.
\* ------------------------------------------------------------------------
FireFetchFailed(before, after, failed) == after = before - 1 /\ failed.fires

EvacFetchFailed(before, after, failed) ==
  after = before - 1 /\ failed.evacuations

C25_FailedFetch ==
  /\ [][/\ FireFetchFailed(firesInFlight, firesInFlight', latestFailed') =>
             (fireData' = fireData /\ error' # << >> /\ ~loadingFires')
        /\ EvacFetchFailed(evacInFlight, evacInFlight', latestFailed') =>
             (evacuationData' = evacuationData /\ error' # << >>
              /\ ~loadingEvac')]_vars
  /\ (firesInFlight > 0) ~> ~loadingFires
  /\ (evacInFlight > 0) ~> ~loadingEvac
  /\ (aqiInFlight > 0) ~> ~loadingAqi

C25_Witness ==
  /\ followErrors
  /\ latestFailed.evacuations /\ latestFailed.fires
  /\ evacInFlight = 0 /\ firesInFlight = 0
  /\ Len(evacuationData) > 0 /\ Len(fireData) > 0
  /\ error # << >>
  /\ ~loadingEvac /\ ~loadingFires

\* ------------------------------------------------------------------------
\* C26. In the two scans that compare with a strict less-than, the first
\* candidate that achieves the minimum is kept: the closest point of every
\* evaluated zone is the first vertex of its ring, in ring order, at the
\* minimum distance from the observer, and the associated fire is the
\* first non-finalized fire, in collection order, at the minimum distance
\* from the closest point of the selected zone.
\* ------------------------------------------------------------------------
\* the positions of the vertices of a ring nearest to the observer
NearestVertexIndices(loc, ring) ==
  { k \in 1..Len(ring) :
      \A m \in 1..Len(ring) : DistTo(loc, ring[k]) <= DistTo(loc, ring[m]) }

\* the positions of the non-finalized fires nearest to a point
NearestFireIndices(point, fd) ==
  { j \in 1..Len(fd) :
      /\ ~fd[j].Final
      /\ \A k \in 1..Len(fd) :
           ~fd[k].Final => PointToFire(point, fd[j]) <= PointToFire(point, fd[k]) }

C26_StrictScansKeepFirst ==
  ZoneEvaluated =>
    /\ \A i \in 1..Len(evacuationData) :
         Len(evacuationData[i].ring) > 0 =>
           zones(location, evacuationData)[i].closestPoint
             = evacuationData[i].ring[
                 First(NearestVertexIndices(location, evacuationData[i].ring))]
    /\ (/\ Len(fireData) > 0
        /\ SelectedZone.closestPoint # Null
        /\ NearestFireIndices(SelectedZone.closestPoint, fireData) # {}) =>
         closestEvacZone.associatedFire
           = fireData[First(NearestFireIndices(SelectedZone.closestPoint,
                                               fireData))]

\* two vertices of the selected zone tie for its minimum distance, and two
\* non-finalized fires tie for the minimum distance to its closest point
C26_Witness ==
  /\ ZoneEvaluated
  /\ closestEvacZone # Null
  /\ closestEvacZone.associatedFire # Null
  /\ SelectedZone.closestPoint # Null
  /\ Cardinality(NearestVertexIndices(location, SelectedZone.zone.ring)) >= 2
  /\ Cardinality(NearestFireIndices(SelectedZone.closestPoint, fireData)) >= 2

\* ------------------------------------------------------------------------
\* C27. In AirQualityDisplay, whatever the order in which overlapping
\* fetches settle, once no fetch is in flight the component does not hold
\* an error together with measurements, and the measurements it holds were
\* fetched for the lat and lng it has now.
\* ------------------------------------------------------------------------
FetchedFor(item, props) ==
  \/ (item.Latitude = props.lat /\ item.Longitude = props.lng)
  \/ (item.Latitude = roundedCoordinates(props).lat
      /\ item.Longitude = roundedCoordinates(props).lng)

C27_IdleDisplayConsistent ==
  (aqdProps # Null /\ Len(aqdInFlight) = 0) =>
    /\ ~(aqdError # Null /\ Len(aqiData) > 0)
    /\ \A k \in 1..Len(aqiData) : FetchedFor(aqiData[k], aqdProps)

\* ------------------------------------------------------------------------
\* C28. The air-quality route consults its sources in a fixed order: the
\* request with the exact coordinates is issued only after the request
\* with the rounded coordinates has been answered with a failure or with
\* no data; the AQICN request is issued only when the AirNow data is
\* absent or empty; AQICN data never replaces AirNow data that is not
\* empty; and an exception raised in the AQICN fallback leaves the answer
\* at status 200 with the AirNow result.
\* ------------------------------------------------------------------------
AbsentOrEmpty(body) == body = Null \/ body = [array |-> << >>]

Answered(entry) == entry.answer # Undefined

\* the positions of the AirNow requests of the log that have been answered
\* with a body
AirNowRead ==
  { k \in 1..Len(airLog) :
      /\ airLog[k].url \in {"roundedUrl", "exactUrl"}
      /\ Answered(airLog[k])
      /\ ~rejects(airLog[k].answer) }

RaisedInFallback ==
  \E k \in 1..Len(airThrown) : airThrown[k].in = "fetchAQICNData"

C28_SourcesInFixedOrder ==
  /\ \A k \in 1..Len(airLog) :
       airLog[k].url = "exactUrl" =>
         /\ k = 2
         /\ airLog[1].url = "roundedUrl"
         /\ Answered(airLog[1])
         /\ ~rejects(airLog[1].answer)
         /\ (~airLog[1].answer.ok \/ AbsentOrEmpty(airLog[1].answer.body))
  /\ \A k \in 1..Len(airLog) :
       airLog[k].url = "aqicn" =>
         /\ k > 1
         /\ k - 1 \in AirNowRead
         /\ AbsentOrEmpty(airLog[k - 1].answer.body)
  /\ (airResponse # Null /\ airResponse.status = 200 /\ AirNowRead # {}) =>
       LET body == airLog[Last(AirNowRead)].answer.body
       IN ~AbsentOrEmpty(body) => airResponse.json = body
  /\ RaisedInFallback =>
       /\ airResponse.status = 200
       /\ airResponse.json = airLog[Last(AirNowRead)].answer.body

\* all three sources were consulted, and the fallback raised an exception
C28_Witness ==
  /\ airPc = "idle"
  /\ Len(airLog) = 3
  /\ airLog[3].url = "aqicn"
  /\ RaisedInFallback
  /\ airResponse.status = 200

\* ------------------------------------------------------------------------
\* C29 (as claimed). The air-quality route answers 400 when lat or lng is
\* missing and 500 when the AirNow key is not configured, without an
\* upstream request in both cases; and every exception raised while a
\* request is handled ends in a 500 response with a JSON error.
\* ------------------------------------------------------------------------
ParameterMissing ==
  airRequest.lat \in {Null, [text |-> ""]}
    \/ airRequest.lng \in {Null, [text |-> ""]}

ErrorResponse(status) ==
  /\ airPc = "idle"
  /\ airResponse # Null
  /\ airResponse.status = status
  /\ "error" \in DOMAIN airResponse.json

C29_ErrorsBecomeResponses ==
  airRequest # Null =>
    /\ ParameterMissing => (airLog = << >> /\ ErrorResponse(400))
    /\ airRequest.airNowApiKey = Undefined =>
         (airLog = << >> /\ ErrorResponse(500))
    /\ airThrown # << >> => ErrorResponse(500)

\* C29 (amended). The air-quality route answers 400 when lat or lng is
\* missing, and 500 when both are present and the AirNow key is not
\* configured, without an upstream request in both cases; every exception
\* raised while a request is handled, other than one raised inside the
\* AQICN fallback, ends in a 500 response with a JSON error; an exception
\* raised inside the AQICN fallback is caught there and the answer stays
\* at status 200.
C29_ErrorsBecomeResponsesExceptFallback ==
  airRequest # Null =>
    /\ ParameterMissing => (airLog = << >> /\ ErrorResponse(400))
    /\ (~ParameterMissing /\ airRequest.airNowApiKey = Undefined) =>
         (airLog = << >> /\ ErrorResponse(500))
    /\ \A k \in 1..Len(airThrown) :
         /\ airThrown[k].in = "GET" => ErrorResponse(500)
         /\ airThrown[k].in = "fetchAQICNData" =>
              (airPc = "idle" /\ airResponse.status = 200)

\* the exact request was answered with a failure, which GET threw
C29_Witness ==
  /\ airPc = "idle"
  /\ Len(airLog) = 2
  /\ airThrown # << >>
  /\ airThrown[1].in = "GET"
  /\ airResponse.status = 500

\* ------------------------------------------------------------------------
\* C30. getMainAQI returns the first measurement of the list named PM25 or
\* PM2.5 whenever there is one, even if another measurement has a higher
\* AQI; without one it returns the first measurement, in list order, whose
\* AQI is the highest of the list; for an empty or missing list it returns
\* AQI 0 with category Good.
\* ------------------------------------------------------------------------
PM25Indices(list) ==
  { k \in 1..Len(list) : list[k].ParameterName \in {"PM25", "PM2.5"} }

HighestIndices(list) ==
  { k \in 1..Len(list) :
      \A j \in 1..Len(list) : list[k].AQI.number >= list[j].AQI.number }

Reported(item) ==
  [aqi |-> item.AQI.number, category |-> item.Category.Name,
   isInternational |-> (item.StateCode = "INT")]

C30_WitnessPM25 ==
  /\ mainData # Null
  /\ mainData # Undefined
  /\ Len(mainData.list) = 3
  /\ PM25Indices(mainData.list) = {2}
  /\ mainData.list[1].AQI.number > mainData.list[2].AQI.number
  /\ mainAQI.aqi = mainData.list[2].AQI.number

====
